---- MODULE Spec2Model ----
(***************************************************************************)
(* The real-time broadcast hub of public-endpoint (src/main.py): one       *)
(* websocket handler per producer connection (root), one per subscriber    *)
(* connection (printers, sign, hours), a keep_alive greenlet per            *)
(* connection and an update greenlet per subscriber of a dispatch round.   *)
(* gevent schedules the greenlets cooperatively: every action below is the *)
(* code between two points where a greenlet can yield (receive, send,      *)
(* sleep, joinall) or block on the network (the derivation's HTTP calls).  *)
(***************************************************************************)
EXTENDS Integers, Sequences, FiniteSets, TLC

\* ------------------------------------------------------------ constants
CLIENT_JOINALL_TIMEOUT_SECONDS == 5
POLLER_JSON_TIMEOUT_SECONDS == 30
X_API_KEY == "secret"

\* class ClientType(Enum)
POLLER == "poller"
PRINTERS == "printers"
SIGN == "sign"
HOURS == "hours"
ClientType == {POLLER, PRINTERS, SIGN, HOURS}

\* class OpenType(Enum)
CLOSED == "CLOSED"
OPEN == "OPEN"
FORCE_OPEN == "FORCE_OPEN"
FORCE_CLOSE == "FORCE_CLOSE"

\* -------------------------------------------------------------- bounds
\* the clock is read in steps of TickSeconds
TickSeconds == 30

Producers == {"p1", "p2"}
Subscribers == {"s1", "s2"}
Conns == Producers \cup Subscribers
\* the connections that are made in one run
Populations == {{"p1", "s1"}, {"p1", "s1", "s2"}, {"p1", "p2", "s1"}}
\* connection ids are handed out in this order
Earlier(c) == IF c = "p2" THEN {"p1"} ELSE IF c = "s2" THEN {"s1"} ELSE {}

\* datetime None
None == -1

\* ------------------------------------------------ what a producer sends
\* A frame is text: either not JSON at all, or a JSON object with any of
\* the fields key, printers, sign.
Garbage == [text |-> "garbage"]
Json(obj) == [text |-> "json", obj |-> obj]

WrongKeys == {"", "SECRET"}
PrinterStates == {"idle", "busy"}
\* the sign field: the door sensor, with or without the switch
Switches == [one_on : {0, 1}, two_on : {0, 1}]
SignStates ==
    {[door |-> d] : d \in {0, 1}}
    \cup {[door |-> d, switch |-> sw] : d \in {0, 1}, sw \in Switches}

\* the door open and the switch on "follow the schedule"
OpenDoor == [door |-> 0, switch |-> [one_on |-> 1, two_on |-> 0]]

AuthObjects ==
    {[key |-> X_API_KEY, sign |-> OpenDoor],
     [key |-> X_API_KEY, printers |-> "idle"]}
    \cup {[key |-> X_API_KEY, printers |-> pr, sign |-> OpenDoor] : pr \in PrinterStates}
    \cup {[key |-> X_API_KEY, printers |-> "idle", sign |-> sg] : sg \in SignStates}
UnauthObjects ==
    {[printers |-> "busy"]}
    \cup {[key |-> k, printers |-> "busy"] : k \in WrongKeys}
Frames == {Garbage} \cup {Json(o) : o \in AuthObjects \cup UnauthObjects}

\* the connections on which a keep_alive send may raise
KeepAliveFaults == {"s1"}
\* the connections whose peer may stop reading, so that a send to it blocks
SlowConns == {"s2"}

\* what the collaborators can answer while one message is derived
MentorLists == {<< >>, <<"bo", "al", "bo">>}
Weathers == {"72.5 F"}
HoursLists == {"hours-a"}

VARIABLES
    conns,                      \* the connections of this run
    last_poller_json_str_dict,  \* the last-value cache, ClientType -> str
    last_poller_json_age,       \* datetime.utcnow() - last_poller_json_age, or None
    clients_dict,               \* ClientType -> list of WebSocket
    closed,                     \* ws.closed, per connection
    pc,                         \* where each connection's handler is
    ka,                         \* each connection's keep_alive greenlet
    chan,                       \* the endpoint a subscriber connected to
    msg,                        \* root: msg, the frame last received
    new_poller_json_str_dict,   \* root: the payloads derived from msg
    ctype_i,                    \* root: position of the for loop over the channels
    update_greenlets,           \* root: the greenlets of the round being joined
    orphans,                    \* connections with a send still blocked after its round's joinall timed out
    waited,                     \* root: time.time() - start, while joinall waits
    ev,                         \* what the last step sent, if anything
    last_sent,                  \* the payload last delivered to each watched subscriber
    \* anchorlink.py, class Attendance, and what its portal has seen
    previously_uploaded,        \* self.previously_uploaded
    last_download,              \* self.last_download, or None
    seen,                       \* the codes the portal accepted or download reported, so far
    call,                       \* the last call of upload or download and its outcome
    \* mentors.py, get_hours
    get_shifts,                 \* the set get_shifts() returns
    shifts,                     \* get_hours: shifts
    time_ranges,                \* get_hours: time_ranges
    hours_pc,                   \* get_hours: where the function is
    day_hours                   \* get_hours_for_day_of_week: the sorted ranges

hub_vars == <<conns, last_poller_json_str_dict, last_poller_json_age, clients_dict,
              closed, pc, ka, chan, msg, new_poller_json_str_dict, ctype_i,
              update_greenlets, orphans, waited, ev, last_sent>>
attendance_vars == <<previously_uploaded, last_download, seen, call>>
hours_vars == <<get_shifts, shifts, time_ranges, hours_pc, day_hours>>
vars == <<hub_vars, attendance_vars, hours_vars>>

\* ----------------------------------------------------------- payloads
\* json.dumps of the three payload shapes and the neutral '{}'
EmptyJson == << >>
DumpsPrinters(printers) == <<"printers", printers>>
DumpsSign(open, mentors, weather) == <<"open", open, "mentors", mentors, "weather", weather>>
DumpsHours(hours) == <<"hours", hours>>

\* the channels in the order new_poller_json_str_dict is filled and iterated
ChannelOrder == <<PRINTERS, SIGN, HOURS>>

NoEvent == [kind |-> "none"]
NoFrame == [text |-> "none"]
NoDict == << >>
NoCall == [op |-> "none"]
\* self.last_download = None
NoDownload == <<"None">>
\* nothing was delivered on the connection yet
NotSent == <<"not sent">>

\* dict[k] = v
DictSet(d, k, v) == [x \in DOMAIN d \cup {k} |-> IF x = k THEN v ELSE d[x]]

\* a remove that leaves the list as it is
Remove_Kept(list, ws) == list

\* list.remove(ws), for a list that holds ws at most once
Remove(list, ws) == SelectSeq(list, LAMBDA c : c # ws)

\* -------------------------------------------------------------- helpers
\* a check that takes every socket for open
is_valid_Always(ws) == TRUE

\* ws is not None and not ws.closed
is_valid(ws) == ~closed[ws]

\* the staleness test with >= for >
poller_json_to_str_Strict(ctype) ==
    IF last_poller_json_age = None
       \/ last_poller_json_age >= POLLER_JSON_TIMEOUT_SECONDS
    THEN EmptyJson
    ELSE IF ctype \in DOMAIN last_poller_json_str_dict
         THEN last_poller_json_str_dict[ctype]
         ELSE EmptyJson

poller_json_to_str(ctype) ==
    IF last_poller_json_age = None
       \/ last_poller_json_age > POLLER_JSON_TIMEOUT_SECONDS
    THEN EmptyJson
    ELSE IF ctype \in DOMAIN last_poller_json_str_dict
         THEN last_poller_json_str_dict[ctype]
         ELSE EmptyJson

\* the update time set on the first contact only
AgeOnContact_Kept(age) == IF age = None THEN 0 ELSE age

\* line 137: last_poller_json_time = datetime.utcnow(), so the contact is
\* zero seconds old, whatever its age was
AgeOnContact(age) == 0

\* json.loads(msg) succeeds
Parses(frame) == frame.text = "json"

\* a comparison of the first len(a) characters only
compare_digest_Prefix(a, b) == a = b \/ a = ""

\* secrets.compare_digest
compare_digest(a, b) == a = b

\* a comparison of the key that ignores case
Authenticated_AnyCase(msg_json) ==
    /\ "key" \in DOMAIN msg_json
    /\ msg_json.key \in {X_API_KEY, "SECRET"}

\* lines 124-132: the message carries the key and it is the secret
Authenticated(msg_json) ==
    /\ "key" \in DOMAIN msg_json
    /\ compare_digest(msg_json.key, X_API_KEY)

\* a decision that does not look at the door
is_open_NoDoor(poller_json, mentors_on_duty) ==
    IF Len(mentors_on_duty) > 0 THEN OPEN ELSE CLOSED

\* sign.py is_open raises KeyError: the door is open (so that the switch is
\* looked at) and the message has no switch
is_open_raises(poller_json) ==
    /\ "sign" \in DOMAIN poller_json
    /\ poller_json.sign.door = 0
    /\ "switch" \notin DOMAIN poller_json.sign

\* sign.py is_open
is_open(poller_json, mentors_on_duty) ==
    IF "sign" \notin DOMAIN poller_json
    THEN (IF Len(mentors_on_duty) > 0 THEN OPEN ELSE CLOSED)
    ELSE IF poller_json.sign.door # 0
    THEN CLOSED
    ELSE IF poller_json.sign.switch.one_on # 0
    THEN (IF Len(mentors_on_duty) > 0 THEN OPEN ELSE CLOSED)
    ELSE IF poller_json.sign.switch.two_on # 0
    THEN FORCE_OPEN
    ELSE FORCE_CLOSE

\* the mentors kept whatever the decision
SignMentors_Always(opn, mentors) == mentors

\* the first mentor only
SignMentors_First(opn, mentors) ==
    IF opn # OPEN THEN << >> ELSE SubSeq(mentors, 1, 1)

\* lines 139-142: the mentors that go into the sign payload
SignMentors(opn, mentors) == IF opn # OPEN THEN << >> ELSE mentors

\* lines 144-147, for a message that has `printers`
Derived(poller_json, mentors, weather, hours) ==
    LET opn == is_open(poller_json, mentors) IN
    [c \in {PRINTERS, SIGN, HOURS} |->
        CASE c = PRINTERS -> DumpsPrinters(poller_json.printers)
          [] c = SIGN -> DumpsSign(opn = FORCE_OPEN \/ opn = OPEN,
                                   SignMentors(opn, mentors), weather)
          [] c = HOURS -> DumpsHours(hours)]

\* every channel taken as changed
Changed_Always(new, ctype) == TRUE

\* line 150: the channel's payload is new or differs from the cached one
Changed(new, ctype) ==
    \/ ctype \notin DOMAIN last_poller_json_str_dict
    \/ new[ctype] # last_poller_json_str_dict[ctype]

\* the clients of every channel instead of the channel's own
Spawned_All(ctype) ==
    UNION {{[ws |-> clients_dict[c][i], ctype |-> ctype, st |-> "ready",
             payload |-> EmptyJson] :
               i \in {j \in 1..Len(clients_dict[c]) : is_valid(clients_dict[c][j])}} :
           c \in {PRINTERS, SIGN, HOURS}}

\* line 155: one update greenlet per client of the channel that is still valid
Spawned(ctype) ==
    {[ws |-> clients_dict[ctype][i], ctype |-> ctype, st |-> "ready",
      payload |-> EmptyJson] :
        i \in {j \in 1..Len(clients_dict[ctype]) : is_valid(clients_dict[ctype][j])}}

\* the endpoints each subscriber of a run may connect to
Endpoints(s) ==
    IF s = "s2" THEN {SIGN}
    ELSE IF "p2" \in conns THEN {PRINTERS}
    ELSE {PRINTERS, SIGN}

\* the frames each producer of a run may send: anything when it is the only
\* producer; in a run with two producers both hold the key, and the first
\* reports an idle printer and the second a busy one, behind an open door
ProducerFrames(p) ==
    IF "p2" \notin conns THEN Frames
    ELSE {Json([key |-> X_API_KEY,
                printers |-> IF p = "p1" THEN "idle" ELSE "busy",
                sign |-> OpenDoor])}

\* The producer handlers that hold the thread. From the return of
\* ws.receive (119) to the first gevent.joinall (156), and from one joinall
\* to the next or back to gevent.sleep (118), a handler never yields: the
\* HTTP requests of get_mentors_on_duty, get_weather and get_hours (139-147)
\* go through requests.get, which gevent does not patch, so they block the
\* whole process, and the rest is plain computation. No other greenlet runs
\* meanwhile; only time passes.
Running == {p \in Producers : pc[p] \in {"derive", "loop"}}

\* the subscribers whose received payloads are followed: the subscriber of
\* the runs with one producer and one subscriber
Watched == IF conns = {"p1", "s1"} THEN {"s1"} ELSE {}

\* ws.send(payload) on connection ws returned: the peer has the payload
Delivered(ws, payload, result) ==
    IF ws \in Watched /\ result = "ok"
    THEN [last_sent EXCEPT ![ws] = payload]
    ELSE last_sent

\* ------------------------------------------------------------------ Init
HubInit(population) ==
    /\ conns = population
    /\ last_poller_json_str_dict = NoDict
    /\ last_poller_json_age = None
    /\ clients_dict = [c \in ClientType |-> << >>]
    /\ closed = [c \in Conns |-> FALSE]
    /\ pc = [c \in Conns |-> "idle"]
    /\ ka = [c \in Conns |-> "none"]
    /\ chan = [s \in Subscribers |-> POLLER]
    /\ msg = [p \in Producers |-> NoFrame]
    /\ new_poller_json_str_dict = [p \in Producers |-> NoDict]
    /\ ctype_i = [p \in Producers |-> 0]
    /\ update_greenlets = [p \in Producers |-> {}]
    /\ orphans = {}
    /\ waited = [p \in Producers |-> None]
    /\ ev = NoEvent
    /\ last_sent = [s \in Subscribers |-> NotSent]

\* anchorlink.py 72-73: a new Attendance, and a portal that was told nothing
AttendanceInit ==
    /\ previously_uploaded = {}
    /\ last_download = NoDownload
    /\ seen = {}
    /\ call = NoCall

\* get_hours has not been called
HoursIdle ==
    /\ get_shifts = {}
    /\ shifts = {}
    /\ time_ranges = << >>
    /\ hours_pc = "idle"
    /\ day_hours = << >>

\* the hub starts with the connections of one run; the sheet job and
\* get_hours share no state with it and are followed in specifications of
\* their own
Init ==
    /\ \E population \in Populations : HubInit(population)
    /\ AttendanceInit
    /\ HoursIdle

\* ---------------------------------------------------------------- clock
\* the time a step of the clock adds to a duration that is being measured;
\* a duration is not followed past the limit it is compared with
Later(t, limit) == IF t = None \/ t > limit THEN t ELSE t + TickSeconds

Tick ==
    /\ UNCHANGED <<last_sent, attendance_vars, hours_vars>>
    /\ last_poller_json_age' = Later(last_poller_json_age, POLLER_JSON_TIMEOUT_SECONDS)
    /\ waited' = [p \in Producers |->
                      Later(waited[p], CLIENT_JOINALL_TIMEOUT_SECONDS - 1)]
    /\ <<last_poller_json_age', waited'>> # <<last_poller_json_age, waited>>
    /\ ev' = NoEvent
    /\ UNCHANGED <<conns, last_poller_json_str_dict, clients_dict, closed, pc, ka,
                   chan, msg, new_poller_json_str_dict, ctype_i, update_greenlets,
                   orphans>>

\* ------------------------------------------------------------- producer
\* root, lines 111-116: the connection is accepted and its keep_alive spawned
ProducerConnect(p) ==
    /\ UNCHANGED <<last_sent, attendance_vars, hours_vars>>
    /\ Running = {}
    /\ p \in conns
    /\ pc[p] = "idle"
    /\ \A c \in Earlier(p) \cap conns : pc[c] # "idle"
    /\ pc' = [pc EXCEPT ![p] = "recv"]
    /\ ka' = [ka EXCEPT ![p] = "run"]
    /\ ev' = NoEvent
    /\ UNCHANGED <<conns, last_poller_json_str_dict, last_poller_json_age,
                   clients_dict, closed, chan, msg, new_poller_json_str_dict,
                   ctype_i, update_greenlets, orphans, waited>>

\* lines 117-137: one frame is received; it fails to parse (the exception is
\* caught at 162 and the connection closed), is rejected (closed, return)
\* or is authenticated (the update time is set)
ProducerReceive(p, frame) ==
    /\ UNCHANGED <<last_sent, attendance_vars, hours_vars>>
    /\ Running = {}
    /\ pc[p] = "recv"
    /\ is_valid(p)
    /\ ev' = [kind |-> "frame", ws |-> p, frame |-> frame]
    /\ IF Parses(frame) /\ Authenticated(frame.obj)
       THEN /\ last_poller_json_age' = AgeOnContact(last_poller_json_age)
            /\ msg' = [msg EXCEPT ![p] = frame]
            /\ pc' = [pc EXCEPT ![p] = "derive"]
            /\ UNCHANGED closed
       ELSE /\ closed' = [closed EXCEPT ![p] = TRUE]
            /\ pc' = [pc EXCEPT ![p] = "done"]
            /\ UNCHANGED <<last_poller_json_age, msg>>
    /\ UNCHANGED <<conns, last_poller_json_str_dict, clients_dict, ka, chan,
                   new_poller_json_str_dict, ctype_i, update_greenlets, orphans, waited>>

\* lines 117-119, 161: the peer went away (receive returns None on a closed
\* socket, or raises and the handler closes it); the handler ends
ProducerLeave(p) ==
    /\ UNCHANGED <<last_sent, attendance_vars, hours_vars>>
    /\ Running = {}
    /\ pc[p] = "recv"
    /\ closed' = [closed EXCEPT ![p] = TRUE]
    /\ pc' = [pc EXCEPT ![p] = "done"]
    /\ ev' = NoEvent
    /\ UNCHANGED msg
    /\ UNCHANGED <<conns, last_poller_json_str_dict, last_poller_json_age,
                   clients_dict, ka, chan, new_poller_json_str_dict, ctype_i,
                   update_greenlets, orphans, waited>>

\* lines 139-147 when nothing raises: the three payloads are derived
DeriveOk(p, mentors, weather, hours) ==
    /\ UNCHANGED <<last_sent, attendance_vars, hours_vars>>
    /\ pc[p] = "derive"
    /\ "printers" \in DOMAIN msg[p].obj
    /\ ~is_open_raises(msg[p].obj)
    /\ new_poller_json_str_dict' =
           [new_poller_json_str_dict EXCEPT
               ![p] = Derived(msg[p].obj, mentors, weather, hours)]
    /\ ctype_i' = [ctype_i EXCEPT ![p] = 1]
    /\ pc' = [pc EXCEPT ![p] = "loop"]
    /\ msg' = [msg EXCEPT ![p] = NoFrame]
    /\ ev' = [kind |-> "derived", ws |-> p, raised |-> FALSE, printers |-> TRUE,
              obj |-> msg[p].obj, mentors |-> mentors, weather |-> weather]
    /\ UNCHANGED <<conns, last_poller_json_str_dict, last_poller_json_age,
                   clients_dict, closed, ka, chan, update_greenlets,
                   orphans, waited>>

\* lines 139-147 when something raises (a collaborator, is_open on a
\* message without the switch it looks at, or new_poller_json['printers']
\* on a message without printers): the exception
\* leaves the loop, is logged at 162-165 and the connection is closed
DeriveRaise(p) ==
    /\ UNCHANGED <<last_sent, attendance_vars, hours_vars>>
    /\ pc[p] = "derive"
    /\ closed' = [closed EXCEPT ![p] = TRUE]
    /\ pc' = [pc EXCEPT ![p] = "done"]
    /\ msg' = [msg EXCEPT ![p] = NoFrame]
    /\ ev' = [kind |-> "derived", ws |-> p, raised |-> TRUE,
              printers |-> "printers" \in DOMAIN msg[p].obj]
    /\ UNCHANGED <<conns, last_poller_json_str_dict, last_poller_json_age,
                   clients_dict, ka, chan, new_poller_json_str_dict, ctype_i,
                   update_greenlets, orphans, waited>>

\* line 160 then 149, or 117: the next channel, or back to receive
Advance(p) ==
    IF ctype_i[p] < Len(ChannelOrder)
    THEN /\ ctype_i' = [ctype_i EXCEPT ![p] = ctype_i[p] + 1]
         /\ pc' = [pc EXCEPT ![p] = "loop"]
         /\ UNCHANGED new_poller_json_str_dict
    ELSE /\ ctype_i' = [ctype_i EXCEPT ![p] = 0]
         /\ pc' = [pc EXCEPT ![p] = "recv"]
         /\ new_poller_json_str_dict' = [new_poller_json_str_dict EXCEPT ![p] = NoDict]

\* lines 149-156: one iteration of the loop over the channels: a changed
\* payload is cached and its update greenlets are spawned and joined; a
\* joinall of no greenlet returns at once, without a yield
LoopStep(p) ==
    /\ UNCHANGED <<last_sent, attendance_vars, hours_vars>>
    /\ pc[p] = "loop"
    /\ ev' = NoEvent
    /\ LET ctype == ChannelOrder[ctype_i[p]]
           new == new_poller_json_str_dict[p] IN
       IF Changed(new, ctype) /\ Spawned(ctype) # {}
       THEN /\ last_poller_json_str_dict' =
                   DictSet(last_poller_json_str_dict, ctype, new[ctype])
            /\ update_greenlets' = [update_greenlets EXCEPT ![p] = Spawned(ctype)]
            /\ waited' = [waited EXCEPT ![p] = 0]
            /\ pc' = [pc EXCEPT ![p] = "join"]
            /\ UNCHANGED <<ctype_i, new_poller_json_str_dict>>
       ELSE IF Changed(new, ctype)
       THEN /\ last_poller_json_str_dict' =
                   DictSet(last_poller_json_str_dict, ctype, new[ctype])
            /\ Advance(p)
            /\ UNCHANGED <<update_greenlets, waited>>
       ELSE /\ Advance(p)
            /\ UNCHANGED <<last_poller_json_str_dict, update_greenlets, waited>>
    /\ UNCHANGED <<conns, last_poller_json_age, clients_dict, closed, ka, chan,
                   msg, orphans>>

\* a failed send that takes the other subscribers down with it
AfterSend_All(ws, result) ==
    IF result = "raise"
    THEN [c \in Conns |-> IF c \in Subscribers THEN TRUE ELSE closed[c]]
    ELSE closed

\* update.send, lines 103-106: ws.closed of every connection once the send
\* has ended; a send that raised is caught and that connection closed
AfterSend(ws, result) ==
    IF result = "raise" THEN [closed EXCEPT ![ws] = TRUE] ELSE closed

\* what a step hands to ws.send: who sent it, to whom, what, and how it ended
UpdateEvent(g, p, payload, result) ==
    [kind |-> "update", ws |-> g.ws, ctype |-> g.ctype, by |-> p,
     payload |-> payload, result |-> result,
     trigger |-> new_poller_json_str_dict[p][g.ctype]]

\* update.send, lines 102-106, from the moment the greenlet first runs: the
\* payload is read through poller_json_to_str and handed to ws.send, which
\* returns, raises (the connection is closed) or blocks
UpdateRun(p, g, result) ==
    /\ UNCHANGED <<attendance_vars, hours_vars>>
    /\ Running = {}
    /\ pc[p] = "join"
    /\ g \in update_greenlets[p]
    /\ g.st = "ready"
    /\ closed[g.ws] => result = "raise"
    /\ result = "block" => g.ws \in SlowConns
    /\ LET payload == poller_json_to_str(g.ctype) IN
       /\ ev' = UpdateEvent(g, p, payload, result)
       /\ last_sent' = Delivered(g.ws, payload, result)
       /\ update_greenlets' =
              [update_greenlets EXCEPT ![p] =
                  (@ \ {g}) \cup
                  (IF result = "block"
                   THEN {[g EXCEPT !.st = "sending", !.payload = payload]}
                   ELSE {})]
    /\ closed' = AfterSend(g.ws, result)
    /\ UNCHANGED <<conns, last_poller_json_str_dict, last_poller_json_age,
                   clients_dict, pc, ka, chan, msg, new_poller_json_str_dict,
                   ctype_i, orphans, waited>>

\* a blocked ws.send of the round being joined returns or raises
UpdateFinish(p, g, result) ==
    /\ UNCHANGED <<attendance_vars, hours_vars>>
    /\ Running = {}
    /\ pc[p] = "join"
    /\ g \in update_greenlets[p]
    /\ g.st = "sending"
    /\ closed[g.ws] => result = "raise"
    /\ ev' = UpdateEvent(g, p, g.payload, result)
    /\ last_sent' = Delivered(g.ws, g.payload, result)
    /\ update_greenlets' = [update_greenlets EXCEPT ![p] = @ \ {g}]
    /\ closed' = AfterSend(g.ws, result)
    /\ UNCHANGED <<conns, last_poller_json_str_dict, last_poller_json_age,
                   clients_dict, pc, ka, chan, msg, new_poller_json_str_dict,
                   ctype_i, orphans, waited>>

\* a ws.send still blocked after its round was abandoned by joinall's
\* timeout returns or raises
OrphanFinish(ws, result) ==
    /\ UNCHANGED <<last_sent, attendance_vars, hours_vars>>
    /\ Running = {}
    /\ ws \in orphans
    /\ closed[ws] => result = "raise"
    /\ ev' = [kind |-> "orphan", ws |-> ws, result |-> result]
    /\ orphans' = orphans \ {ws}
    /\ closed' = AfterSend(ws, result)
    /\ UNCHANGED <<conns, last_poller_json_str_dict, last_poller_json_age,
                   clients_dict, pc, ka, chan, msg, new_poller_json_str_dict,
                   ctype_i, update_greenlets, waited>>

\* a joinall that gives up as soon as it is called
BudgetElapsed_Early(t) == t >= 0

\* line 156, timeout=CLIENT_JOINALL_TIMEOUT_SECONDS: the budget of the round
\* has elapsed
BudgetElapsed(t) == t >= CLIENT_JOINALL_TIMEOUT_SECONDS

\* line 156: joinall returns because every greenlet of the round has ended
JoinDone(p) ==
    /\ UNCHANGED <<last_sent, attendance_vars, hours_vars>>
    /\ Running = {}
    /\ pc[p] = "join"
    /\ update_greenlets[p] = {}
    /\ Advance(p)
    /\ waited' = [waited EXCEPT ![p] = None]
    /\ ev' = NoEvent
    /\ UNCHANGED <<conns, last_poller_json_str_dict, last_poller_json_age,
                   clients_dict, closed, ka, chan, msg, update_greenlets, orphans>>

\* line 156: joinall returns because the budget has elapsed; the greenlets
\* still blocked in ws.send are left running
JoinTimeout(p) ==
    /\ UNCHANGED <<last_sent, attendance_vars, hours_vars>>
    /\ Running = {}
    /\ pc[p] = "join"
    /\ update_greenlets[p] # {}
    /\ \A g \in update_greenlets[p] : g.st = "sending"
    /\ BudgetElapsed(waited[p])
    /\ orphans' = orphans \cup {g.ws : g \in update_greenlets[p]}
    /\ update_greenlets' = [update_greenlets EXCEPT ![p] = {}]
    /\ Advance(p)
    /\ waited' = [waited EXCEPT ![p] = None]
    /\ ev' = NoEvent
    /\ UNCHANGED <<conns, last_poller_json_str_dict, last_poller_json_age,
                   clients_dict, closed, ka, chan, msg>>

\* ----------------------------------------------------------- subscribers
\* a registration that appends the connection twice
Register_Twice(list, ws) == Append(Append(list, ws), ws)

\* lines 172, 192, 211: clients_dict[ctype].append(ws)
Register(list, ws) == Append(list, ws)

\* printers / sign / hours, lines 172-175: the connection is registered and
\* its keep_alive spawned
SubscriberJoin(s, ctype) ==
    /\ UNCHANGED <<last_sent, attendance_vars, hours_vars>>
    /\ Running = {}
    /\ s \in conns
    /\ pc[s] = "idle"
    /\ \A c \in Earlier(s) \cap conns : pc[c] # "idle"
    /\ chan' = [chan EXCEPT ![s] = ctype]
    /\ clients_dict' = [clients_dict EXCEPT ![ctype] = Register(@, s)]
    /\ ka' = [ka EXCEPT ![s] = "run"]
    /\ pc' = [pc EXCEPT ![s] = "recv"]
    /\ ev' = NoEvent
    /\ UNCHANGED <<conns, last_poller_json_str_dict, last_poller_json_age,
                   closed, msg, new_poller_json_str_dict, ctype_i,
                   update_greenlets, orphans, waited>>

\* lines 176-185: the receive loop ends (the peer left, receive raised, or
\* the connection was closed by an update greenlet) and the finally clause
\* takes the connection out of the registry
SubscriberLeave(s) ==
    /\ UNCHANGED <<attendance_vars, hours_vars>>
    /\ Running = {}
    /\ pc[s] = "recv"
    /\ closed' = [closed EXCEPT ![s] = TRUE]
    /\ clients_dict' = [clients_dict EXCEPT ![chan[s]] = Remove(@, s)]
    /\ chan' = [chan EXCEPT ![s] = POLLER]
    /\ pc' = [pc EXCEPT ![s] = "done"]
    /\ ev' = [kind |-> "leave", ws |-> s, ctype |-> chan[s], hub |-> closed[s]]
    /\ last_sent' = [last_sent EXCEPT ![s] = NotSent]
    /\ UNCHANGED <<conns, last_poller_json_str_dict, last_poller_json_age,
                   ka, msg, new_poller_json_str_dict, ctype_i,
                   update_greenlets, orphans, waited>>

\* ------------------------------------------------------------ keep_alive
\* every keep_alive serving the printers channel
KeepAliveType_Printers(c) == PRINTERS

\* every keep_alive serving the producer's channel
KeepAliveType_Poller(c) == POLLER

\* the channel a connection's keep_alive serves
KeepAliveType(c) == IF c \in Producers THEN POLLER ELSE chan[c]

\* keep_alive.send, lines 95-97: one turn of the loop, when the greenlet
\* first runs or wakes from its sleep: it ends on a closed connection, else
\* sends the current payload and sleeps; a send that raises ends the greenlet
KeepAlive(c, result) ==
    /\ UNCHANGED <<attendance_vars, hours_vars>>
    /\ Running = {}
    /\ ka[c] = "run"
    /\ result = "raise" => c \in KeepAliveFaults
    /\ IF is_valid(c)
       THEN /\ ev' = [kind |-> "keepalive", ws |-> c, ctype |-> KeepAliveType(c),
                      payload |-> poller_json_to_str(KeepAliveType(c)),
                      result |-> result]
            /\ ka' = [ka EXCEPT ![c] = IF result = "raise" THEN "ended" ELSE "run"]
            /\ last_sent' = Delivered(c, poller_json_to_str(KeepAliveType(c)), result)
       ELSE /\ result = "ok"
            /\ ev' = [kind |-> "ended", ws |-> c]
            /\ UNCHANGED last_sent
            /\ ka' = [ka EXCEPT ![c] = "ended"]
    /\ UNCHANGED <<conns, last_poller_json_str_dict, last_poller_json_age,
                   clients_dict, closed, pc, chan, msg, new_poller_json_str_dict,
                   ctype_i, update_greenlets, orphans, waited>>

Next ==
    \/ Tick
    \/ \E p \in Producers : ProducerConnect(p)
    \/ \E p \in Producers : \E frame \in ProducerFrames(p) : ProducerReceive(p, frame)
    \/ \E p \in Producers : ProducerLeave(p)
    \/ \E p \in Producers, m \in MentorLists, w \in Weathers, h \in HoursLists :
          DeriveOk(p, m, w, h)
    \/ \E p \in Producers : DeriveRaise(p)
    \/ \E p \in Producers : LoopStep(p)
    \/ \E p \in Producers : \E g \in update_greenlets[p] :
          \E r \in {"ok", "raise", "block"} : UpdateRun(p, g, r)
    \/ \E p \in Producers : \E g \in update_greenlets[p] :
          \E r \in {"ok", "raise"} : UpdateFinish(p, g, r)
    \/ \E ws \in orphans : \E r \in {"ok", "raise"} : OrphanFinish(ws, r)
    \/ \E p \in Producers : JoinDone(p)
    \/ \E p \in Producers : JoinTimeout(p)
    \/ \E s \in Subscribers : \E c \in Endpoints(s) : SubscriberJoin(s, c)
    \/ \E s \in Subscribers : SubscriberLeave(s)
    \/ \E c \in Conns : \E r \in {"ok", "raise"} : KeepAlive(c, r)

Spec == Init /\ [][Next]_vars

\* What the gevent hub guarantees: time passes; a greenlet that is ready or
\* whose timer has expired is run (the channel loop, joinall's return, an
\* update greenlet's first run, keep_alive's wake-up); a receive on a closed
\* socket returns, so that the handler of a closed subscriber ends. Nothing
\* makes a peer send a frame, or a blocked send or an HTTP request return.
Fairness ==
    /\ WF_vars(Tick)
    /\ \A c \in Conns : WF_vars(\E r \in {"ok", "raise"} : KeepAlive(c, r))
    /\ \A p \in Producers :
          /\ WF_vars(LoopStep(p))
          /\ WF_vars(JoinDone(p))
          /\ WF_vars(JoinTimeout(p))
          /\ WF_vars(\E g \in update_greenlets[p] :
                        \E r \in {"ok", "raise", "block"} : UpdateRun(p, g, r))
    /\ \A s \in Subscribers : WF_vars(closed[s] /\ SubscriberLeave(s))

FairSpec == Spec /\ Fairness

\* ====================================================== anchorlink.py
\* The sheet job (main.py 54-73, sheets.py 77-92) owns one Attendance and
\* calls its upload and download; an exception of either call is caught
\* nowhere and ends the job, so no call follows a call that raised.

\* the card codes, and the longest list upload is called with
Codes == {"101", "202"}
MaxCodes == 3
CodeLists == UNION {[1..n -> Codes] : n \in 0..MaxCodes}
\* the longest report the portal exports, one Card_ID_Number per line
MaxReport == 2
Reports == UNION {[1..n -> Codes] : n \in 0..MaxReport}
\* what the portal shows after each swipe: SWIPE_SUCCESS or SWIPE_FAILURE
Answers == [Codes -> {"success", "failure"}]

\* the elements of a list
Range(list) == {list[k] : k \in 1..Len(list)}

\* a filter that only drops the duplicates of the list
FilteredIndices_Fresh(swiped_card_codes, uploaded) ==
    SelectSeq([i \in 1..Len(swiped_card_codes) |-> i],
              LAMBDA i : \A j \in 1..(i - 1) :
                            swiped_card_codes[j] # swiped_card_codes[i])

\* upload, lines 191-198: filtered_swipe_card_codes_indices, the positions
\* (from 1) of the codes that are new and met for the first time
FilteredIndices(swiped_card_codes, uploaded) ==
    SelectSeq([i \in 1..Len(swiped_card_codes) |-> i],
              LAMBDA i : /\ swiped_card_codes[i] \notin uploaded
                         /\ \A j \in 1..(i - 1) :
                               swiped_card_codes[j] # swiped_card_codes[i])

\* upload, lines 191-198: filtered_swipe_card_codes
FilteredCodes(swiped_card_codes, uploaded) ==
    LET indices == FilteredIndices(swiped_card_codes, uploaded) IN
    [n \in 1..Len(indices) |-> swiped_card_codes[indices[n]]]

\* raw_upload, lines 127-151: [False] * len without an access code, else
\* the answer of submit_card for each code
raw_upload(codes, has_access_code, answers) ==
    [n \in 1..Len(codes) |-> has_access_code /\ answers[codes[n]] = "success"]

\* upload, lines 206-209, for the failed code at position i (from 1):
\* enumerate(swiped_card_codes[i:]) counts j from the start of the slice,
\* and successes[j] is the entry the loop sets to False
MarkedFalse(swiped_card_codes, i, code) ==
    {k - i + 1 : k \in {k \in i..Len(swiped_card_codes) :
                           swiped_card_codes[k] = code}}

\* upload, lines 200-213: the list it returns
Successes(swiped_card_codes, uploaded, uploaded_successes) ==
    LET indices == FilteredIndices(swiped_card_codes, uploaded)
        false == UNION {MarkedFalse(swiped_card_codes, indices[n],
                                    swiped_card_codes[indices[n]]) :
                           n \in {n \in 1..Len(indices) : ~uploaded_successes[n]}}
    IN  [k \in 1..Len(swiped_card_codes) |-> k \notin false]

\* Attendance.upload, lines 189-213
Upload(swiped_card_codes, has_access_code, answers) ==
    /\ call.op # "raised"
    /\ LET filtered == FilteredCodes(swiped_card_codes, previously_uploaded)
           uploaded_successes == raw_upload(filtered, has_access_code, answers)
           accepted == {filtered[n] : n \in {n \in 1..Len(filtered) :
                                                uploaded_successes[n]}}
           swiped == Len(filtered) > 0 /\ has_access_code
       IN  /\ call' = [op |-> "upload",
                       codes |-> swiped_card_codes,
                       filtered |-> filtered,
                       submitted |-> IF swiped THEN filtered ELSE << >>,
                       uploaded_successes |-> uploaded_successes,
                       result |-> Successes(swiped_card_codes,
                                            previously_uploaded,
                                            uploaded_successes)]
           /\ previously_uploaded' = previously_uploaded \cup accepted
           /\ seen' = seen \cup accepted
           /\ last_download' = IF swiped THEN NoDownload ELSE last_download
    /\ UNCHANGED <<hub_vars, hours_vars>>

\* Attendance.upload when raw_upload raises (login refused, a WebDriverWait
\* that times out): before anything was swiped, or after the first
\* `swiped` codes were; upload has not recorded anything yet
UploadRaise(swiped_card_codes, answers, swiping, swiped) ==
    /\ call.op # "raised"
    /\ LET filtered == FilteredCodes(swiped_card_codes, previously_uploaded)
       IN  /\ Len(filtered) > 0
           /\ swiped < Len(filtered)
           /\ swiped > 0 => swiping
           /\ seen' = seen \cup
                  {filtered[n] : n \in {n \in 1..swiped :
                                           answers[filtered[n]] = "success"}}
           /\ last_download' = IF swiping THEN NoDownload ELSE last_download
    /\ call' = [op |-> "raised"]
    /\ UNCHANGED <<previously_uploaded, hub_vars, hours_vars>>

\* Attendance.download, lines 154-186: the cached report, or the report the
\* portal exports, whose codes are remembered
Download(report) ==
    /\ call.op # "raised"
    /\ IF last_download # NoDownload
       THEN /\ call' = [op |-> "download", fetched |-> FALSE,
                        result |-> last_download]
            /\ seen' = seen \cup Range(last_download)
            /\ UNCHANGED <<previously_uploaded, last_download>>
       ELSE /\ call' = [op |-> "download", fetched |-> TRUE, result |-> report]
            /\ previously_uploaded' = previously_uploaded \cup Range(report)
            /\ last_download' = report
            /\ seen' = seen \cup Range(report)
    /\ UNCHANGED <<hub_vars, hours_vars>>

\* Attendance.download when the export or its parsing raises, lines 157-181
DownloadRaise ==
    /\ call.op # "raised"
    /\ last_download = NoDownload
    /\ call' = [op |-> "raised"]
    /\ UNCHANGED <<previously_uploaded, last_download, seen,
                   hub_vars, hours_vars>>

\* the sheet job alone: no connection is made to the hub
AttendanceStart == HubInit({}) /\ AttendanceInit /\ HoursIdle

AttendanceNext ==
    \/ \E codes \in CodeLists, has_access_code \in BOOLEAN, answers \in Answers :
          Upload(codes, has_access_code, answers)
    \/ \E codes \in CodeLists, answers \in Answers, swiping \in BOOLEAN,
          swiped \in 0..MaxCodes :
          UploadRaise(codes, answers, swiping, swiped)
    \/ \E report \in Reports : Download(report)
    \/ DownloadRaise

AttendanceSpec == AttendanceStart /\ [][AttendanceNext]_vars

\* ========================================================= mentors.py
\* get_hours, called with the shifts of one day. A shift is its name, the
\* hour it starts and the hours it lasts; its end is start + duration.
Names == {"al"}
MaxStart == 4
MaxDuration == 2
\* the most shifts get_shifts returns
MaxShifts == 3
Shift == [name : Names, start : 0..MaxStart, duration : 1..MaxDuration]
ShiftSets == {s \in SUBSET Shift : Cardinality(s) <= MaxShifts}

\* TimeRange(start, duration)
TimeRange(start, duration) == [start |-> start, duration |-> duration]

\* TimeRange.__lt__, lines 46-48
TimeRange_lt(self, other) ==
    self.start < other.start \/ self.duration < other.duration

\* an overlap test without its third case
is_overlapping_Ends(time_range, shift) ==
    LET time_range_end == time_range.start + time_range.duration IN
    \/ (time_range.start >= shift.start
            /\ time_range.start <= shift.start + shift.duration)
    \/ (time_range_end >= shift.start
            /\ time_range_end <= shift.start + shift.duration)

\* get_hours.is_overlapping, lines 72-82
is_overlapping(time_range, shift) ==
    LET time_range_end == time_range.start + time_range.duration IN
    \/ (time_range.start >= shift.start
            /\ time_range.start <= shift.start + shift.duration)
    \/ (time_range_end >= shift.start
            /\ time_range_end <= shift.start + shift.duration)
    \/ (time_range.start <= shift.start
            /\ time_range_end >= shift.start + shift.duration)

Min(a, b) == IF a < b THEN a ELSE b
Max(a, b) == IF a > b THEN a ELSE b

\* lines 86-90: the last time range merged with the shift that overlaps it
Merged(time_range, first_overlap) ==
    LET new_start == Min(time_range.start, first_overlap.start)
        new_end == Max(time_range.start + time_range.duration,
                       first_overlap.start + first_overlap.duration)
    IN  TimeRange(new_start, new_end - new_start)

\* sorted(), line 97, as CPython sorts a short list, comparing with __lt__
\* only: the run the list starts with is found (and reversed when it
\* descends), then every later element is put in its place by a binary
\* search of the part already sorted.
RECURSIVE RunLength(_, _, _)
RunLength(list, descending, n) ==
    IF n < Len(list) /\ (TimeRange_lt(list[n + 1], list[n]) = descending)
    THEN RunLength(list, descending, n + 1)
    ELSE n

Reverse(list) == [k \in 1..Len(list) |-> list[Len(list) - k + 1]]

\* the number of elements of the sorted part that stay before the pivot
RECURSIVE BinaryPosition(_, _, _, _)
BinaryPosition(list, pivot, l, r) ==
    IF l >= r THEN l
    ELSE LET p == l + ((r - l) \div 2) IN
         IF TimeRange_lt(pivot, list[p + 1])
         THEN BinaryPosition(list, pivot, l, p)
         ELSE BinaryPosition(list, pivot, p + 1, r)

RECURSIVE BinarySort(_, _)
BinarySort(done, rest) ==
    IF rest = << >> THEN done
    ELSE LET l == BinaryPosition(done, Head(rest), 0, Len(done)) IN
         BinarySort(SubSeq(done, 1, l) \o <<Head(rest)>>
                        \o SubSeq(done, l + 1, Len(done)),
                    Tail(rest))

sorted(list) ==
    IF Len(list) < 2 THEN list
    ELSE LET descending == TimeRange_lt(list[2], list[1])
             n == RunLength(list, descending, 2)
             run == SubSeq(list, 1, n)
         IN  BinarySort(IF descending THEN Reverse(run) ELSE run,
                        SubSeq(list, n + 1, Len(list)))

\* lines 65-67: a first shift is popped from the set, any of them
PopFirst(shift) ==
    /\ hours_pc = "first"
    /\ shift \in shifts
    /\ shifts' = shifts \ {shift}
    /\ time_ranges' = <<TimeRange(shift.start, shift.duration)>>
    /\ hours_pc' = "loop"
    /\ UNCHANGED <<get_shifts, day_hours, hub_vars, attendance_vars>>

\* line 65: there is no shift at all
NoShift ==
    /\ hours_pc = "first"
    /\ shifts = {}
    /\ hours_pc' = "loop"
    /\ UNCHANGED <<get_shifts, shifts, time_ranges, day_hours, hub_vars,
                   attendance_vars>>

\* lines 69-90: a shift that overlaps the last time range, whichever the
\* filter meets first, is merged into it
MergeOverlap(first_overlap) ==
    /\ hours_pc = "loop"
    /\ first_overlap \in shifts
    /\ is_overlapping(time_ranges[Len(time_ranges)], first_overlap)
    /\ shifts' = shifts \ {first_overlap}
    /\ time_ranges' = [time_ranges EXCEPT ![Len(time_ranges)] =
                          Merged(@, first_overlap)]
    /\ UNCHANGED <<get_shifts, hours_pc, day_hours, hub_vars, attendance_vars>>

\* lines 69-84, 91-93: no shift overlaps the last time range; another shift
\* is popped and starts a new time range
PopNext(shift) ==
    /\ hours_pc = "loop"
    /\ shift \in shifts
    /\ \A s \in shifts : ~is_overlapping(time_ranges[Len(time_ranges)], s)
    /\ shifts' = shifts \ {shift}
    /\ time_ranges' = Append(time_ranges, TimeRange(shift.start, shift.duration))
    /\ UNCHANGED <<get_shifts, hours_pc, day_hours, hub_vars, attendance_vars>>

\* lines 95-97: the loop is over; the time ranges of the day are sorted
SortDay ==
    /\ hours_pc = "loop"
    /\ shifts = {}
    /\ day_hours' = sorted(time_ranges)
    /\ hours_pc' = "done"
    /\ UNCHANGED <<get_shifts, shifts, time_ranges, hub_vars, attendance_vars>>

\* line 62: get_hours is called with any set of shifts; the hub and the
\* sheet job are at rest
HoursStart ==
    /\ HubInit({})
    /\ AttendanceInit
    /\ get_shifts \in ShiftSets
    /\ shifts = get_shifts
    /\ time_ranges = << >>
    /\ hours_pc = "first"
    /\ day_hours = << >>

HoursNext ==
    \/ \E shift \in Shift : PopFirst(shift)
    \/ NoShift
    \/ \E first_overlap \in Shift : MergeOverlap(first_overlap)
    \/ \E shift \in Shift : PopNext(shift)
    \/ SortDay

HoursSpec == HoursStart /\ [][HoursNext]_vars

\* get_hours is straight-line code: every statement it reaches is run
HoursFairSpec == HoursSpec /\ WF_vars(HoursNext)

\* ================================================================ claims
Outbound == {PRINTERS, SIGN, HOURS}

\* the object has no key, or a key that is not the secret
BadKey(obj) == "key" \notin DOMAIN obj \/ obj.key # X_API_KEY
\* the step received a frame that parsed and was refused / accepted
Rejected(e) == e.kind = "frame" /\ e.frame.text = "json" /\ BadKey(e.frame.obj)
Accepted(e) == e.kind = "frame" /\ e.frame.text = "json" /\ ~BadKey(e.frame.obj)
\* the subscribers registered on a channel whose connection is open
OpenSubscribers(ctype) ==
    {c \in Subscribers : pc[c] = "recv" /\ chan[c] = ctype /\ ~closed[c]}
\* every payload producer p derived equals the cached one
Identical(p) ==
    /\ pc[p] = "loop"
    /\ \A c \in Outbound :
          /\ c \in DOMAIN last_poller_json_str_dict
          /\ new_poller_json_str_dict[p][c] = last_poller_json_str_dict[c]

\* C1: a parsed producer message with no key or a wrong key closes its
\* connection and ends its handler, whatever was accepted before; from then
\* on no frame is received from that connection and nothing is sent on it.
C1_RejectCloses ==
    /\ [](Rejected(ev) => (closed[ev.ws] /\ pc[ev.ws] = "done"))
    /\ [][\A p \in Producers :
            pc[p] = "done" =>
               /\ pc'[p] = "done"
               /\ closed'[p]
               /\ ~(ev'.kind \in {"frame", "keepalive"} /\ ev'.ws = p)]_vars

C1_Witness ==
    /\ Rejected(ev)
    /\ last_poller_json_age # None
    /\ DOMAIN last_poller_json_str_dict = Outbound

\* C2: the step that rejects a producer message leaves the cache, the update
\* time, every registry, every pending send and every other connection as
\* they were.
C2_RejectChangesNothing ==
    [][Rejected(ev') =>
          /\ last_poller_json_str_dict' = last_poller_json_str_dict
          /\ last_poller_json_age' = last_poller_json_age
          /\ clients_dict' = clients_dict
          /\ update_greenlets' = update_greenlets
          /\ orphans' = orphans
          /\ ka' = ka
          /\ \A c \in Conns \ {ev'.ws} : closed'[c] = closed[c] /\ pc'[c] = pc[c]]_vars

C2_Witness ==
    /\ Rejected(ev)
    /\ DOMAIN last_poller_json_str_dict = Outbound
    /\ OpenSubscribers(SIGN) # {}
    /\ last_poller_json_age = TickSeconds

\* C3: while every payload derived from an authenticated message equals the
\* cached one, no step writes the cache or spawns or runs an update send,
\* and the producer goes through the channels back to receive.
C3_IdenticalIsNoOp ==
    [][\A p \in Producers :
          Identical(p) =>
             /\ last_poller_json_str_dict' = last_poller_json_str_dict
             /\ update_greenlets' = update_greenlets
             /\ ev'.kind # "update"
             /\ pc'[p] \in {"loop", "recv"}
             /\ (pc'[p] = "loop" => Identical(p)')]_vars

C3_Witness ==
    \E p \in Producers :
       /\ Identical(p)
       /\ ctype_i[p] = Len(ChannelOrder)
       /\ OpenSubscribers(SIGN) # {}
       /\ OpenSubscribers(PRINTERS) # {}

\* C4: an iteration of the channel loop on channel A whose payload changed
\* writes A's cache entry and no other, and spawns one send for each open
\* subscriber of A and none for a subscriber of another channel; an
\* iteration whose payload did not change writes nothing and spawns nothing.
C4_ChannelIsolation ==
    [][\A p \in Producers :
          (pc[p] = "loop" /\ (pc'[p] # "loop" \/ ctype_i'[p] # ctype_i[p])) =>
             LET A == ChannelOrder[ctype_i[p]]
                 old == last_poller_json_str_dict
                 new == new_poller_json_str_dict[p] IN
             IF A \notin DOMAIN old \/ new[A] # old[A]
             THEN /\ DOMAIN last_poller_json_str_dict' = DOMAIN old \cup {A}
                  /\ last_poller_json_str_dict'[A] = new[A]
                  /\ \A B \in DOMAIN old \ {A} :
                        last_poller_json_str_dict'[B] = old[B]
                  /\ {g.ws : g \in update_greenlets'[p]} = OpenSubscribers(A)
                  /\ \A g \in update_greenlets'[p] : g.ctype = A
             ELSE /\ last_poller_json_str_dict' = old
                  /\ update_greenlets'[p] = {}]_vars

C4_Witness ==
    \E p \in Producers :
       /\ pc[p] = "join"
       /\ ctype_i[p] = 1
       /\ {g.ws : g \in update_greenlets[p]} = {"s1"}
       /\ OpenSubscribers(SIGN) = {"s2"}
       /\ \A B \in {SIGN, HOURS} :
             /\ B \in DOMAIN last_poller_json_str_dict
             /\ new_poller_json_str_dict[p][B] = last_poller_json_str_dict[B]

\* C5: what a keep_alive send reads through poller_json_to_str is the cached
\* payload of its channel exactly when the channel has an entry and the last
\* authenticated contact is at most 30 s old, and '{}' in every other case.
C5_Accessor ==
    ev.kind = "keepalive" =>
       ev.payload =
          IF /\ last_poller_json_age # None
             /\ last_poller_json_age <= 30
             /\ ev.ctype \in DOMAIN last_poller_json_str_dict
          THEN last_poller_json_str_dict[ev.ctype]
          ELSE EmptyJson

C5_Witness ==
    /\ ev.kind = "keepalive"
    /\ ev.ctype \in DOMAIN last_poller_json_str_dict
    /\ last_poller_json_age > 30
    /\ ev.payload = EmptyJson

\* C6 (as claimed): a frame that does not parse leaves the producer
\* connection open and its handler receiving.
C6_GarbageTolerated ==
    (ev.kind = "frame" /\ ev.frame.text # "json") =>
       (~closed[ev.ws] /\ pc[ev.ws] = "recv")

\* C7 (as claimed): when the derivation of a channel fails, the message is
\* not abandoned: the producer goes on to compare the other channels with
\* the cache and its connection stays open.
C7_DerivationIsolated ==
    (ev.kind = "derived" /\ ev.raised) =>
       (pc[ev.ws] = "loop" /\ ~closed[ev.ws])

\* C8: an update send that raises closes the connection it was sent on and no
\* other, ends no handler, leaves the registries alone and leaves the other
\* sends of the round pending; joinall returns to the channel loop, and only
\* once every send of the round has been started.
C8_FaultIsolation ==
    /\ [][(ev'.kind = "update" /\ ev'.result = "raise") =>
             /\ closed'[ev'.ws]
             /\ \A c \in Conns \ {ev'.ws} : closed'[c] = closed[c]
             /\ pc' = pc
             /\ clients_dict' = clients_dict
             /\ \A h \in update_greenlets[ev'.by] :
                   h.ws # ev'.ws => h \in update_greenlets'[ev'.by]]_vars
    /\ [][\A p \in Producers :
             (pc[p] = "join" /\ pc'[p] # "join") =>
                /\ pc'[p] \in {"loop", "recv"}
                /\ \A g \in update_greenlets[p] : g.st # "ready"]_vars

C8_Witness ==
    /\ ev.kind = "update"
    /\ ev.result = "raise"
    /\ \E h \in update_greenlets[ev.by] : h.st = "ready" /\ ~closed[h.ws]

\* C9: the step that authenticates a producer message sets the update time
\* to now, so that right after it the accessor serves every cached payload,
\* changed or not.
C9_ContactSetsTime ==
    Accepted(ev) =>
       /\ last_poller_json_age = 0
       /\ \A c \in DOMAIN last_poller_json_str_dict :
             poller_json_to_str(c) = last_poller_json_str_dict[c]

C9_Witness ==
    /\ Accepted(ev)
    /\ DOMAIN last_poller_json_str_dict = Outbound
    /\ "printers" \in DOMAIN ev.frame.obj
    /\ last_poller_json_str_dict[PRINTERS] = DumpsPrinters(ev.frame.obj.printers)

\* C10 (as claimed): a message delivered by an update send of a dispatch
\* round is the payload written to the cache when the round was triggered.
C10_SendsTriggerPayload ==
    (ev.kind = "update" /\ ev.result = "ok") => ev.payload = ev.trigger

Occurrences(ctype, s) ==
    Cardinality({i \in 1..Len(clients_dict[ctype]) : clients_dict[ctype][i] = s})

\* C12: a subscriber connection is in the registry of its channel exactly
\* once from its join until its handler ends, and in no other registry;
\* before it joins and after its handler has ended, however it ended, it is
\* in no registry at all.
C12_Registered ==
    \A s \in Subscribers : \A c \in ClientType :
       Occurrences(c, s) = IF pc[s] = "recv" /\ chan[s] = c THEN 1 ELSE 0

C12_Witness ==
    /\ ev.kind = "leave"
    /\ ev.hub
    /\ ev.ws = "s1"
    /\ pc["s2"] = "recv"
    /\ Occurrences(SIGN, "s2") = 1

\* C13 (as claimed): a send to a subscriber that raises, made by an update
\* greenlet or by the subscriber's keep_alive, leaves that connection closed.
C13_SendErrorCloses ==
    (ev.kind \in {"update", "orphan", "keepalive"}
        /\ ev.ws \in Subscribers /\ ev.result = "raise") => closed[ev.ws]

\* C14 (as claimed): as long as a subscriber's connection is open and its
\* handler runs, its keep_alive task is alive.
C14_KeepsSending ==
    \A s \in Subscribers : (pc[s] = "recv" /\ ~closed[s]) => ka[s] = "run"

\* the step sent a payload other than '{}' to subscriber s, and the send
\* returned
RealSent(s) ==
    /\ ev.kind \in {"update", "keepalive"}
    /\ ev.ws = s
    /\ ev.result = "ok"
    /\ ev.payload # EmptyJson

\* C17 (as claimed): after a real payload was sent to a subscriber, the
\* subscriber's connection is closed or its handler ends, or the producer
\* sends another authenticated message, or else '{}' is eventually handed
\* to a send to that subscriber.
C17_StaleGoesNeutral ==
    \A s \in Subscribers :
       RealSent(s)
          ~> \/ pc[s] # "recv"
             \/ closed[s]
             \/ Accepted(ev)
             \/ (ev.kind = "keepalive" /\ ev.ws = s /\ ev.payload = EmptyJson)

\* C15: a closed connection is never open again; keep_alive hands nothing to
\* ws.send on a closed connection; a keep_alive that has ended stays ended;
\* and the next wake-up of the keep_alive of a closed connection, which
\* can come whenever no handler holds the thread, ends it.
C15_KeepAliveEnds ==
    /\ [](ev.kind = "keepalive" => ~closed[ev.ws])
    /\ [](\A c \in Conns :
            (closed[c] /\ ka[c] = "run" /\ Running = {})
               => ENABLED KeepAlive(c, "ok"))
    /\ [][\A c \in Conns :
            /\ closed[c] => closed'[c]
            /\ ka[c] = "ended" => ka'[c] = "ended"
            /\ (closed[c] /\ ka'[c] # ka[c]) => ka'[c] = "ended"]_vars

C15_Witness ==
    /\ ev.kind = "ended"
    /\ ev.ws = "s1"
    /\ closed["s1"]
    /\ ka["s1"] = "ended"
    /\ pc["s1"] = "recv"
    /\ ~closed["s2"]
    /\ ka["s2"] = "run"

\* the step was a keep_alive send to a subscriber whose channel has a
\* cached payload
ServedFromCache(e) ==
    /\ e.kind = "keepalive"
    /\ e.ws \in Subscribers
    /\ chan[e.ws] \in DOMAIN last_poller_json_str_dict

\* C16 (as claimed): every keep_alive send to a subscriber whose channel has
\* a cached payload carries that payload.
C16_JoinerGetsCached ==
    ServedFromCache(ev) => ev.payload = last_poller_json_str_dict[chan[ev.ws]]

\* C16 (amended): the keep_alive of an open subscriber can run whenever no
\* handler holds the thread, a dispatch round in flight or not, and needs no
\* producer message; its send carries the cached payload
\* of the subscriber's channel when the last authenticated message is at
\* most 30 s old at the send, and '{}' when it is older.
C16_JoinerServed ==
    /\ \A s \in Subscribers :
          (pc[s] = "recv" /\ ~closed[s] /\ ka[s] = "run" /\ Running = {})
             => ENABLED KeepAlive(s, "ok")
    /\ ServedFromCache(ev) =>
          ev.payload = IF last_poller_json_age <= 30
                       THEN last_poller_json_str_dict[chan[ev.ws]]
                       ELSE EmptyJson

\* a subscriber is served the new payload by its keep_alive while the
\* dispatch round of its channel is still waiting for another subscriber
C16_Witness ==
    /\ ServedFromCache(ev)
    /\ ev.ws = "s2"
    /\ ev.result = "ok"
    /\ ev.payload = last_poller_json_str_dict[SIGN]
    /\ ev.payload # EmptyJson
    /\ \E p \in Producers :
          /\ pc[p] = "join"
          /\ ChannelOrder[ctype_i[p]] = SIGN
          /\ update_greenlets[p] # {}
          /\ \A g \in update_greenlets[p] : g.ws = "s1" /\ g.st = "ready"

\* the handler of producer p is between the authentication of a message and
\* the end of its channel loop
Processing(p) == pc[p] \in {"derive", "loop", "join"}

\* C18 (as claimed): while the dispatch round of one producer connection
\* waits for its sends, no other producer connection is processing a
\* message.
C18_OneProducer ==
    \A p, q \in Producers :
       (p # q /\ pc[p] = "join" /\ update_greenlets[p] # {}) => ~Processing(q)

\* the step derived the payloads of a message, and nothing raised
DerivedOk(e) == e.kind = "derived" /\ ~e.raised
\* the fields of a sign payload
SignOpen(payload) == payload[2]
SignNames(payload) == payload[4]

\* C19: a message with the door open (sign.door = 0), one_on = 1 and
\* two_on = 0, derived while somebody is on duty, gives a SIGN payload with
\* open = true and the on-duty names as get_mentors_on_duty returned them,
\* in that order and with their duplicates; and what is written to the SIGN
\* entry of the cache is a SIGN payload a producer derived.
C19_OpenWithMentors ==
    /\ [](( /\ DerivedOk(ev)
            /\ "sign" \in DOMAIN ev.obj
            /\ ev.obj.sign = [door |-> 0, switch |-> [one_on |-> 1, two_on |-> 0]]
            /\ ev.mentors # << >> )
          => LET payload == new_poller_json_str_dict[ev.ws][SIGN] IN
             /\ SignOpen(payload) = TRUE
             /\ SignNames(payload) = ev.mentors
             /\ Len(SignNames(payload)) = Len(ev.mentors))
    /\ [][(SIGN \in DOMAIN last_poller_json_str_dict'
             /\ (SIGN \notin DOMAIN last_poller_json_str_dict
                 \/ last_poller_json_str_dict'[SIGN] # last_poller_json_str_dict[SIGN]))
          => \E p \in Producers :
                /\ pc[p] = "loop"
                /\ last_poller_json_str_dict'[SIGN] = new_poller_json_str_dict[p][SIGN]]_vars

C19_Witness ==
    /\ DerivedOk(ev)
    /\ "sign" \in DOMAIN ev.obj
    /\ ev.obj.sign = [door |-> 0, switch |-> [one_on |-> 1, two_on |-> 0]]
    /\ ev.mentors = <<"bo", "al", "bo">>
    /\ SignNames(new_poller_json_str_dict[ev.ws][SIGN]) = <<"bo", "al", "bo">>
    /\ SIGN \in DOMAIN last_poller_json_str_dict
    /\ SignOpen(last_poller_json_str_dict[SIGN]) = FALSE
    /\ OpenSubscribers(SIGN) # {}

\* C20: with the door field set (sign.door = 1) is_open answers FORCE_CLOSE
\* or CLOSED and never fails, whatever the switch says or whether it is
\* there at all and whoever is on duty, and the SIGN payload derived from
\* such a message has open = false and no names.
C20_DoorSetCloses ==
    /\ \A o \in AuthObjects : \A m \in MentorLists :
          ("sign" \in DOMAIN o /\ o.sign.door = 1) =>
             /\ ~is_open_raises(o)
             /\ is_open(o, m) \in {FORCE_CLOSE, CLOSED}
    /\ (DerivedOk(ev) /\ "sign" \in DOMAIN ev.obj /\ ev.obj.sign.door = 1) =>
          LET payload == new_poller_json_str_dict[ev.ws][SIGN] IN
          /\ SignOpen(payload) = FALSE
          /\ SignNames(payload) = << >>

C20_Witness ==
    /\ DerivedOk(ev)
    /\ "sign" \in DOMAIN ev.obj
    /\ ev.obj.sign = [door |-> 1]
    /\ ev.mentors # << >>
    /\ SignOpen(new_poller_json_str_dict[ev.ws][SIGN]) = FALSE
    /\ SIGN \in DOMAIN last_poller_json_str_dict
    /\ SignOpen(last_poller_json_str_dict[SIGN]) = TRUE

\* C21 (as claimed): once a producer message is authenticated nothing cancels
\* its processing: the producer leaves the derivation and the loop over the
\* channels only through the end of that loop, back to the receive of the
\* next message.
C21_NeverCancelled ==
    [][\A p \in Producers :
          Processing(p) => (Processing(p)' \/ pc'[p] = "recv")]_vars

\* how many times a connection is in the registries, all channels together
Registrations(c) ==
    Occurrences(POLLER, c) + Occurrences(PRINTERS, c)
        + Occurrences(SIGN, c) + Occurrences(HOURS, c)

\* C22: in every reachable state a connection is in at most one registry and
\* at most once in it, a registered connection is a subscriber whose handler
\* is still running, no producer connection is in a registry and the POLLER
\* registry is empty.
C22_RegistryShape ==
    /\ \A c \in Conns : Registrations(c) <= 1
    /\ \A c \in Conns :
          Registrations(c) > 0 => (c \in Subscribers /\ pc[c] = "recv")
    /\ \A p \in Producers : Registrations(p) = 0
    /\ clients_dict[POLLER] = << >>

C22_Witness ==
    /\ pc["p1"] = "join"
    /\ Registrations("s1") = 1
    /\ Registrations("s2") = 1
    /\ pc["s1"] = "recv"
    /\ pc["s2"] = "recv"
    /\ chan["s1"] = chan["s2"]

\* the step handed a payload to ws.send on connection c
SentOn(e, c) == e.kind \in {"keepalive", "update", "orphan"} /\ e.ws = c

\* C28: whatever is sent on a producer connection is the neutral payload
\* '{}', sent by its keep_alive: no update greenlet, running or left behind
\* by a round, targets a producer connection, and the cache never has an
\* entry for the POLLER channel.
C28_ProducerGetsNeutral ==
    /\ \A p \in Producers :
          SentOn(ev, p) => (ev.kind = "keepalive" /\ ev.payload = EmptyJson)
    /\ \A p \in Producers : \A g \in update_greenlets[p] : g.ws \notin Producers
    /\ orphans \cap Producers = {}
    /\ POLLER \notin DOMAIN last_poller_json_str_dict

C28_Witness ==
    /\ SentOn(ev, "p1")
    /\ ev.result = "ok"
    /\ last_poller_json_age <= POLLER_JSON_TIMEOUT_SECONDS
    /\ last_poller_json_age # None
    /\ DOMAIN last_poller_json_str_dict = Outbound
    /\ poller_json_to_str(PRINTERS) # EmptyJson
    /\ poller_json_to_str(SIGN) # EmptyJson

\* C29: the SIGN payload derived from a message carries names only when the
\* decision of is_open is OPEN; for CLOSED, FORCE_OPEN and FORCE_CLOSE its
\* mentors list is empty, and its `open` is true exactly for OPEN and
\* FORCE_OPEN; so a SIGN payload in the cache that carries names says open.
C29_MentorsOnlyWhenOpen ==
    /\ DerivedOk(ev) =>
          LET opn == is_open(ev.obj, ev.mentors)
              payload == new_poller_json_str_dict[ev.ws][SIGN] IN
          /\ opn \in {CLOSED, FORCE_OPEN, FORCE_CLOSE} => SignNames(payload) = << >>
          /\ SignNames(payload) # << >> => opn = OPEN
          /\ SignOpen(payload) = (opn \in {OPEN, FORCE_OPEN})
    /\ SIGN \in DOMAIN last_poller_json_str_dict =>
          (SignNames(last_poller_json_str_dict[SIGN]) # << >>
              => SignOpen(last_poller_json_str_dict[SIGN]) = TRUE)

C29_Witness ==
    /\ DerivedOk(ev)
    /\ is_open(ev.obj, ev.mentors) = FORCE_OPEN
    /\ ev.mentors # << >>
    /\ SignNames(new_poller_json_str_dict[ev.ws][SIGN]) = << >>
    /\ SignOpen(new_poller_json_str_dict[ev.ws][SIGN]) = TRUE
    /\ SIGN \in DOMAIN last_poller_json_str_dict
    /\ SignNames(last_poller_json_str_dict[SIGN]) # << >>

\* C27 (as claimed): at the step that ends the processing of an
\* authenticated message, with no send of its rounds left behind by a
\* joinall that timed out, the payload last delivered to every open
\* subscriber of a channel is what poller_json_to_str answers for that
\* channel at that moment (the message being no older than the staleness
\* window when its processing ends); also when the message comes after a
\* silence longer than the staleness window and derives what is already
\* cached.
C27_SubscribersCurrent ==
    [][\A p \in Producers :
          ( /\ Processing(p)
            /\ pc'[p] = "recv"
            /\ orphans' = {}
            /\ last_poller_json_age' <= POLLER_JSON_TIMEOUT_SECONDS )
          => \A s \in Watched :
                (pc'[s] = "recv" /\ ~closed'[s] /\ last_sent'[s] # NotSent)
                => (last_sent[s] = poller_json_to_str(chan[s]))']_vars

\* no code occurs twice in the list
Distinct(list) ==
    \A i, j \in 1..Len(list) : i # j => list[i] # list[j]

\* C23: over any sequence of upload and download calls, a code that the
\* portal accepted in an earlier upload or that an earlier download
\* reported is not submitted by a later upload, an upload submits no code
\* twice, and an upload of codes all seen before submits nothing and
\* returns True for every one of them.
C23_NoResubmission ==
    [][call'.op = "upload" =>
         /\ Range(call'.submitted) \cap seen = {}
         /\ Distinct(call'.submitted)
         /\ Range(call'.submitted) \subseteq Range(call'.codes)
         /\ Range(call'.codes) \subseteq seen =>
               /\ call'.submitted = << >>
               /\ call'.result = [k \in 1..Len(call'.codes) |-> TRUE]]_vars

C23_Witness ==
    /\ call.op = "upload"
    /\ call.codes = <<"101", "202", "202">>
    /\ call.submitted = <<"202">>
    /\ call.uploaded_successes = <<TRUE>>
    /\ seen = {"101", "202"}
    /\ last_download = NoDownload

\* C24 (as claimed): upload returns a list as long as its input, whose entry
\* k is False exactly when the code at k was handed to raw_upload by this
\* call and raw_upload answered False for it, at every position of that
\* code, and True at every other position.
C24_SuccessPerIndex ==
    call.op = "upload" =>
       /\ Len(call.result) = Len(call.codes)
       /\ \A k \in 1..Len(call.codes) :
             call.result[k] = FALSE <=>
                \E n \in 1..Len(call.filtered) :
                   /\ call.filtered[n] = call.codes[k]
                   /\ ~call.uploaded_successes[n]

\* the end of a shift or of a time range
EndOf(r) == r.start + r.duration
\* two intervals have an hour or an instant in common
Overlap(a, b) == a.start <= EndOf(b) /\ b.start <= EndOf(a)
\* the shifts that lie inside a time range
Group(r) == {s \in get_shifts : r.start <= s.start /\ EndOf(s) <= EndOf(r)}

\* C25: whatever the set of shifts and whichever shift each pop and each
\* filter yields, get_hours' loop ends, and then no two of its time ranges
\* overlap; each starts at the earliest start and ends at the latest end of
\* the shifts inside it, which cover it without a gap and overlap no shift
\* outside it; and every shift is inside a time range, so the ranges and
\* the shifts cover the same hours.
C25_MergedRanges ==
    /\ <>(hours_pc = "done")
    /\ [](hours_pc = "done" =>
            /\ shifts = {}
            /\ \A i, j \in 1..Len(time_ranges) :
                  i # j => ~Overlap(time_ranges[i], time_ranges[j])
            /\ \A i \in 1..Len(time_ranges) :
                  LET r == time_ranges[i] IN
                  /\ \E s \in Group(r) : s.start = r.start
                  /\ \E s \in Group(r) : EndOf(s) = EndOf(r)
                  /\ \A h \in r.start..(EndOf(r) - 1) :
                        \E s \in Group(r) : s.start <= h /\ h + 1 <= EndOf(s)
                  /\ \A s \in get_shifts \ Group(r) :
                        \A g \in Group(r) : ~Overlap(s, g)
            /\ \A s \in get_shifts :
                  \E i \in 1..Len(time_ranges) : s \in Group(time_ranges[i]))

C25_Witness ==
    /\ hours_pc = "done"
    /\ get_shifts = {[name |-> "al", start |-> 0, duration |-> 2],
                     [name |-> "al", start |-> 1, duration |-> 1],
                     [name |-> "al", start |-> 4, duration |-> 1]}
    /\ time_ranges = <<TimeRange(4, 1), TimeRange(0, 2)>>

\* C26 (as claimed): TimeRange's ordering goes by start first: a < b implies
\* a.start <= b.start, a < b and b < a never both hold, and the sorted hours
\* of a day are in ascending order of start.
C26_StartFirst ==
    hours_pc = "done" =>
       /\ \A a, b \in Range(time_ranges) :
             TimeRange_lt(a, b) => (a.start <= b.start /\ ~TimeRange_lt(b, a))
       /\ \A i, j \in 1..Len(day_hours) :
             i < j => day_hours[i].start <= day_hours[j].start

====
